---- MODULE Spec2Model ----
(***************************************************************************)
(* A model of scraper.py (ZillowScraper): URL validation, the per-URL      *)
(* record assembly of extract_property_data with its exception handlers,   *)
(* the days-on-market heuristic, and the scrape_urls loop with its output  *)
(* file, confirmation prompt and rate limiting.                            *)
(*                                                                         *)
(* Python strings whose characters the code inspects (URLs, the text of    *)
(* HTML nodes, the answer typed at the prompt) are sequences of one-       *)
(* character strings, so that lower(), strip(), split(), substring tests   *)
(* and urlparse are computed rather than assumed.  The scrape_timestamp    *)
(* field of a record is left out: no operation reads it.                   *)
(***************************************************************************)
EXTENDS Integers, Sequences, FiniteSets, TLC

VARIABLES
    urls,          \* scrape_urls argument: the list of URLs
    append,        \* scrape_urls argument: append flag
    answer,        \* what the user types at the confirmation prompt
    site,          \* the responses the remote site may give during this run
    exists,        \* Path(output_file).exists()
    file,          \* the rows of the output file, in order
    pc,            \* position in scrape_urls / extract_property_data
    i,             \* loop index of scrape_urls (1-based, enumerate(urls, 1))
    mode,          \* local `mode` of scrape_urls
    write_header,  \* local `write_header` of scrape_urls
    results,       \* local `results` of scrape_urls
    failed_count,  \* local `failed_count` of scrape_urls
    exit_status,   \* -1 while running, else the status given to sys.exit / normal end
    result,        \* local `result` of extract_property_data
    soup,          \* the parsed document of the current URL
    response,      \* history: what the last session.get produced
    ran,           \* history: the extractors called for the current URL
    fetches,       \* history: number of session.get calls per list position
    written,       \* history: number of writerow calls per list position
    slept,         \* history: number of time.sleep calls made after each list position
    prompted,      \* history: input() was called
    file0          \* history: the rows of the output file when scrape_urls was called

vars == <<urls, append, answer, site, exists, file, pc, i, mode, write_header,
          results, failed_count, exit_status, result, soup, response, ran,
          fetches, written, slept, prompted, file0>>

----------------------------------------------------------------------------
(* Bounds of the model *)

\* longest URL list whose responses are explored exhaustively
MaxUrls == 2
\* URL lists around the warning threshold have MAX_URLS_WARNING-1 .. MAX_URLS_WARNING+MaxExtra entries
MaxExtra == 1

(* Program constants *)
MAX_URLS_WARNING == 20

----------------------------------------------------------------------------
(* Python str operations on sequences of characters *)

LowerLetters == <<"a","b","c","d","e","f","g","h","i","j","k","l","m","n","o","p","q","r","s","t","u","v","w","x","y","z">>
UpperLetters == <<"A","B","C","D","E","F","G","H","I","J","K","L","M","N","O","P","Q","R","S","T","U","V","W","X","Y","Z">>
Digits == {"0","1","2","3","4","5","6","7","8","9"}
Whitespace == {" ", "\n", "\t"}

Range(s) == {s[k] : k \in 1..Len(s)}

\* str.lower() on one character
LowerChar(c) ==
    IF \E k \in 1..26 : UpperLetters[k] = c
    THEN LowerLetters[CHOOSE k \in 1..26 : UpperLetters[k] = c]
    ELSE c

\* str.lower()
Lower(s) == [k \in 1..Len(s) |-> LowerChar(s[k])]

\* `sub in s`
Contains(s, sub) ==
    \E k \in 0..(Len(s) - Len(sub)) : SubSeq(s, k + 1, k + Len(sub)) = sub

\* s.find(c) + 1 for a set of characters: the first position holding one of cs, 0 if none
FindAny(s, cs) ==
    IF \E k \in 1..Len(s) : s[k] \in cs
    THEN CHOOSE k \in 1..Len(s) : s[k] \in cs /\ \A j \in 1..(k - 1) : s[j] \notin cs
    ELSE 0

\* str.strip()
Strip(s) ==
    IF \A k \in 1..Len(s) : s[k] \in Whitespace THEN <<>>
    ELSE LET a == CHOOSE k \in 1..Len(s) :
                     s[k] \notin Whitespace /\ \A j \in 1..(k - 1) : s[j] \in Whitespace
             b == CHOOSE k \in 1..Len(s) :
                     s[k] \notin Whitespace /\ \A j \in (k + 1)..Len(s) : s[j] \in Whitespace
         IN  SubSeq(s, a, b)

\* str.split(): the maximal runs of non-whitespace characters
RECURSIVE Split(_)
Split(s) ==
    LET t == Strip(s)
    IN  IF t = <<>> THEN <<>>
        ELSE LET e == FindAny(t, Whitespace)
             IN  IF e = 0 THEN <<t>>
                 ELSE <<SubSeq(t, 1, e - 1)>> \o Split(SubSeq(t, e, Len(t)))

\* str.isdigit()
IsDigit(w) == Len(w) > 0 /\ \A k \in 1..Len(w) : w[k] \in Digits

\* str.replace(c, '')
RECURSIVE Without(_, _)
Without(s, c) ==
    IF s = <<>> THEN <<>>
    ELSE (IF Head(s) = c THEN <<>> ELSE <<Head(s)>>) \o Without(Tail(s), c)

\* the Python str a character sequence stands for
RECURSIVE Str(_)
Str(s) == IF s = <<>> THEN "" ELSE Head(s) \o Str(Tail(s))

----------------------------------------------------------------------------
(* URLs given to the scraper *)

\* "https://www.zillow.com/homedetails/1": a listing
UrlListing == <<"h","t","t","p","s",":","/","/">> \o <<"w","w","w",".","z","i","l","l","o","w",".","c","o","m">> \o <<"/","h","o","m","e","d","e","t","a","i","l","s","/","1">>
\* "HTTPS://WWW.ZILLOW.COM/x": the same site in capitals
UrlUpper == <<"H","T","T","P","S",":","/","/">> \o <<"W","W","W",".","Z","I","L","L","O","W",".","C","O","M">> \o <<"/","x">>
\* "https://www.notzillow.com/x": another site whose name ends like the vendor's
UrlNotZillow == <<"h","t","t","p","s",":","/","/">> \o <<"w","w","w",".","n","o","t","z","i","l","l","o","w",".","c","o","m">> \o <<"/","x">>
\* "https://example.com/zillow.com": the vendor's name in the path only
UrlPathOnly == <<"h","t","t","p","s",":","/","/">> \o <<"e","x","a","m","p","l","e",".","c","o","m">> \o <<"/">> \o <<"z","i","l","l","o","w",".","c","o","m">>
\* "https://zillow.com@evil.example/x": the vendor's name as the user name, the host is evil.example
UrlUserinfo == <<"h","t","t","p","s",":","/","/">> \o <<"z","i","l","l","o","w",".","c","o","m","@","e","v","i","l",".","e","x","a","m","p","l","e">> \o <<"/","x">>
\* "www.zillow.com/x": no scheme, so urlparse finds no network location
UrlNoScheme == <<"w","w","w",".","z","i","l","l","o","w",".","c","o","m">> \o <<"/","x">>
\* "https://[zillow.com/x": urlparse raises ValueError (Invalid IPv6 URL)
UrlBracket == <<"h","t","t","p","s",":","/","/">> \o <<"[","z","i","l","l","o","w",".","c","o","m">> \o <<"/","x">>

UrlPool == {UrlListing, UrlUpper, UrlNotZillow, UrlPathOnly, UrlUserinfo, UrlNoScheme, UrlBracket}

\* the URLs of the lists whose responses are explored exhaustively
RunUrls == {UrlListing, UrlPathOnly, UrlNotZillow}

----------------------------------------------------------------------------
(* urllib.parse.urlparse, as far as validate_url reads it *)

SchemeChars == Range(LowerLetters) \cup Range(UpperLetters) \cup Digits \cup {"+", "-", "."}

\* the position of the ':' ending the scheme, 0 if the URL has no scheme
SchemeEnd(url) ==
    LET k == FindAny(url, {":"})
    IN  IF /\ k > 1
           /\ url[1] \in Range(LowerLetters) \cup Range(UpperLetters)
           /\ \A j \in 1..(k - 1) : url[j] \in SchemeChars
        THEN k ELSE 0

\* urlparse(url).netloc: what lies between a leading "//" and the next of / ? #
Netloc(url) ==
    LET rest == SubSeq(url, SchemeEnd(url) + 1, Len(url))
    IN  IF Len(rest) >= 2 /\ rest[1] = "/" /\ rest[2] = "/"
        THEN LET body == SubSeq(rest, 3, Len(rest))
                 d    == FindAny(body, {"/", "?", "#"})
             IN  IF d = 0 THEN body ELSE SubSeq(body, 1, d - 1)
        ELSE <<>>

\* urlparse raises ValueError when the network location has one bracket without the other
UrlparseRaises(url) ==
    LET n == Netloc(url)
    IN  \/ ("[" \in Range(n) /\ "]" \notin Range(n))
        \/ ("]" \in Range(n) /\ "[" \notin Range(n))

VENDOR == <<"z","i","l","l","o","w",".","c","o","m">>

\* ZillowScraper.validate_url
validate_url(url) ==
    IF UrlparseRaises(url) THEN FALSE
    ELSE Contains(Lower(Netloc(url)), VENDOR)

----------------------------------------------------------------------------
(* Exceptions and the handlers of extract_property_data *)

\* the classes an exception of class cls is an instance of (requests.exceptions, builtins)
Ancestors(cls) ==
    CASE cls = "ReadTimeout"     -> {"ReadTimeout", "Timeout", "RequestException", "Exception"}
      [] cls = "ConnectTimeout"  -> {"ConnectTimeout", "ConnectionError", "Timeout", "RequestException", "Exception"}
      [] cls = "ConnectionError" -> {"ConnectionError", "RequestException", "Exception"}
      [] cls = "HTTPError"       -> {"HTTPError", "RequestException", "Exception"}
      [] OTHER                   -> {cls, "Exception"}

Exc(cls, msg, status) == [cls |-> cls, msg |-> msg, status |-> status]

\* handlers with the catch-all for requests' exceptions tried first
HandlersGeneralFirst == <<"RequestException", "Timeout", "HTTPError", "Exception">>

\* the except clauses of extract_property_data, in order
Handlers == <<"Timeout", "HTTPError", "RequestException", "Exception">>

\* the except clause that catches e: the first whose class e is an instance of
HandlerOf(e) ==
    Handlers[CHOOSE k \in 1..Len(Handlers) :
                /\ Handlers[k] \in Ancestors(e.cls)
                /\ \A j \in 1..(k - 1) : Handlers[j] \notin Ancestors(e.cls)]

\* result['error'] as the catching clause sets it
ErrorTag(e) ==
    CASE HandlerOf(e) = "Timeout"          -> "Request timeout"
      [] HandlerOf(e) = "HTTPError"        -> "HTTP " \o ToString(e.status)
      [] HandlerOf(e) = "RequestException" -> "Request failed: " \o e.msg
      [] HandlerOf(e) = "Exception"        -> "Parsing error: " \o e.msg

----------------------------------------------------------------------------
(* Documents: the parsed page, as far as the extractors read it *)

Extractors == {"address", "lot_size", "price", "price_per_sqft", "days_on_market"}

\* a text node: its string, whether it is a Comment (found by find_all(string=...),
\* left out of get_text()), and the element that is its parent
Node(text, comment, parent) == [text |-> text, comment |-> comment, parent |-> parent]

\* faults: the extractors in which a call into the document raises;
\* found: the extractors (other than days on market) whose selectors match;
\* nodes: the text nodes in document order; up[e]: the parent element of element e, 0 for none
Doc(faults, found, nodes, up) == [faults |-> faults, found |-> found, nodes |-> nodes, up |-> up]

\* element e is p or lies below p
RECURSIVE Under(_, _, _)
Under(doc, e, p) == e = p \/ (doc.up[e] # 0 /\ Under(doc, doc.up[e], p))

\* p.get_text(strip=True): the stripped, non-empty strings below p, comments left out, joined by ''
RECURSIVE GetTextFrom(_, _, _)
GetTextFrom(doc, p, k) ==
    IF k > Len(doc.nodes) THEN <<>>
    ELSE LET n == doc.nodes[k]
         IN  (IF ~n.comment /\ Under(doc, n.parent, p) THEN Strip(n.text) ELSE <<>>)
                 \o GetTextFrom(doc, p, k + 1)

GetText(doc, p) == GetTextFrom(doc, p, 1)

----------------------------------------------------------------------------
(* _extract_days_on_market *)

KEYWORDS == << <<"T","i","m","e"," ","o","n"," ","Z","i","l","l","o","w">>,
               <<"D","a","y","s"," ","o","n"," ","Z","i","l","l","o","w">>,
               <<"o","n"," ","Z","i","l","l","o","w">>,
               <<"D","a","y","s"," ","o","n"," ","m","a","r","k","e","t">> >>
DAY    == <<"d","a","y">>
ZILLOW == <<"z","i","l","l","o","w">>
MARKET == <<"m","a","r","k","e","t">>

\* the predicate given to find_all(string=...)
NodeMatches(n, keyword) == n.text # <<>> /\ Contains(Lower(n.text), Lower(keyword))

\* word.isdigit() or word.replace(',', '').isdigit()
IsNumber(word) == IsDigit(word) \/ IsDigit(Without(word, ","))

\* the first test alone: the next word contains "day"
NextIsDay(words, k) == k + 1 <= Len(words) /\ Contains(Lower(words[k + 1]), DAY)

\* acceptance without the elif branch
AcceptDayOnly(words, k, full) == NextIsDay(words, k)

\* the if / elif under which the number words[k] is returned
Accept(words, k, full) ==
    \/ NextIsDay(words, k)
    \/ Contains(Lower(full), ZILLOW) \/ Contains(Lower(full), MARKET)

\* for i, word in enumerate(words): the first accepted number from position k on, <<>> if none
RECURSIVE ScanWords(_, _, _)
ScanWords(words, full, k) ==
    IF k > Len(words) THEN <<>>
    ELSE IF IsNumber(words[k]) /\ Accept(words, k, full) THEN words[k]
    ELSE ScanWords(words, full, k + 1)

\* for elem in elements: from node n on
RECURSIVE ScanElems(_, _, _)
ScanElems(doc, keyword, n) ==
    IF n > Len(doc.nodes) THEN <<>>
    ELSE IF NodeMatches(doc.nodes[n], keyword)
         THEN LET full == GetText(doc, doc.nodes[n].parent)
                  w    == ScanWords(Split(full), full, 1)
              IN  IF w # <<>> THEN w ELSE ScanElems(doc, keyword, n + 1)
         ELSE ScanElems(doc, keyword, n + 1)

\* for keyword in keywords: from keyword j on
RECURSIVE ScanKeywords(_, _)
ScanKeywords(doc, j) ==
    IF j > Len(KEYWORDS) THEN <<>>
    ELSE LET w == ScanElems(doc, KEYWORDS[j], 1)
         IN  IF w # <<>> THEN w ELSE ScanKeywords(doc, j + 1)

\* the value the try block of _extract_days_on_market computes
days_on_market_body(doc) ==
    LET w == ScanKeywords(doc, 1)
    IN  IF w = <<>> THEN "N/A" ELSE Str(w) \o " days"

----------------------------------------------------------------------------
(* The pages the model serves *)

NoNodes == [nodes |-> <<>>, up |-> <<>>]

\* "5 days on Zillow"
Days1 == [nodes |-> << Node(<<"5"," ","d","a","y","s"," ","o","n"," ","Z","i","l","l","o","w">>, FALSE, 1) >>, up |-> <<0>>]
\* "Days on market: 7 weeks"
Days2 == [nodes |-> << Node(<<"D","a","y","s"," ","o","n"," ","m","a","r","k","e","t",":"," ","7"," ","w","e","e","k","s">>, FALSE, 1) >>, up |-> <<0>>]
\* "1,234 views on Zillow"
Days3 == [nodes |-> << Node(<<"1",",","2","3","4"," ","v","i","e","w","s"," ","o","n"," ","Z","i","l","l","o","w">>, FALSE, 1) >>, up |-> <<0>>]
\* <div><!-- on Zillow -->3 cats</div>
Days4 == [nodes |-> << Node(<<" ","o","n"," ","Z","i","l","l","o","w"," ">>, TRUE, 1),
                       Node(<<"3"," ","c","a","t","s">>, FALSE, 1) >>, up |-> <<0>>]
\* <div><!-- on Zillow -->2 beds 9 days ago</div>
Days5 == [nodes |-> << Node(<<" ","o","n"," ","Z","i","l","l","o","w"," ">>, TRUE, 1),
                       Node(<<"2"," ","b","e","d","s"," ","9"," ","d","a","y","s"," ","a","g","o">>, FALSE, 1) >>, up |-> <<0>>]
\* "Listed 4 days ago": no label
Days6 == [nodes |-> << Node(<<"L","i","s","t","e","d"," ","4"," ","d","a","y","s"," ","a","g","o">>, FALSE, 1) >>, up |-> <<0>>]
\* <p>Time on Zillow</p><p>on Zillow 30</p>
Days7 == [nodes |-> << Node(<<"T","i","m","e"," ","o","n"," ","Z","i","l","l","o","w">>, FALSE, 1),
                       Node(<<"o","n"," ","Z","i","l","l","o","w"," ","3","0">>, FALSE, 2) >>, up |-> <<0, 0>>]
\* "TIME ON ZILLOW 8 DAYS"
Days8 == [nodes |-> << Node(<<"T","I","M","E"," ","O","N"," ","Z","I","L","L","O","W"," ","8"," ","D","A","Y","S">>, FALSE, 1) >>, up |-> <<0>>]
\* <div>48<span>hours on Zillow</span></div>
Days9 == [nodes |-> << Node(<<"4","8">>, FALSE, 1),
                       Node(<<"h","o","u","r","s"," ","o","n"," ","Z","i","l","l","o","w">>, FALSE, 2) >>, up |-> <<0, 1>>]
\* "  6  days on zillow "
Days10 == [nodes |-> << Node(<<" "," ","6"," "," ","d","a","y","s"," ","o","n"," ","z","i","l","l","o","w"," ">>, FALSE, 1) >>, up |-> <<0>>]
\* <p>Days on market 3</p><p>Time on Zillow 9</p>
Days11 == [nodes |-> << Node(<<"D","a","y","s"," ","o","n"," ","m","a","r","k","e","t"," ","3">>, FALSE, 1),
                        Node(<<"T","i","m","e"," ","o","n"," ","Z","i","l","l","o","w"," ","9">>, FALSE, 2) >>, up |-> <<0, 0>>]
\* <div>Time on Zillow<br>12 days</div>: the text of the div is "Time on Zillow12 days"
Days12 == [nodes |-> << Node(<<"T","i","m","e"," ","o","n"," ","Z","i","l","l","o","w">>, FALSE, 1),
                        Node(<<"1","2"," ","d","a","y","s">>, FALSE, 1) >>, up |-> <<0>>]
\* <div><!-- on Zillow -->3 cats</div><p>on Zillow 30</p>
Days13 == [nodes |-> << Node(<<" ","o","n"," ","Z","i","l","l","o","w"," ">>, TRUE, 1),
                        Node(<<"3"," ","c","a","t","s">>, FALSE, 1),
                        Node(<<"o","n"," ","Z","i","l","l","o","w"," ","3","0">>, FALSE, 2) >>, up |-> <<0, 0>>]

DaysDocs == {NoNodes, Days1, Days2, Days3, Days4, Days5, Days6, Days7, Days8, Days9,
             Days10, Days11, Days12, Days13}

EmptyDoc == Doc({}, {}, <<>>, <<>>)
FullDoc  == Doc({}, Extractors, Days1.nodes, Days1.up)

\* every combination of faulting extractors on a full page, and every days-on-market
\* page with the other selectors all matching or none matching
AllDocs ==
    {Doc(f, Extractors, Days1.nodes, Days1.up) : f \in SUBSET Extractors}
        \cup {Doc({}, g, d.nodes, d.up) : d \in DaysDocs, g \in {{}, Extractors}}

NoExc == Exc("", "", 0)
Raise(e) == [kind |-> "raise", exc |-> e, status |-> 0, doc |-> EmptyDoc]
Page(status, doc) == [kind |-> "response", exc |-> NoExc, status |-> status, doc |-> doc]

ReadTimeout    == Raise(Exc("ReadTimeout", "Read timed out.", 0))
ConnectTimeout == Raise(Exc("ConnectTimeout", "Connection timed out.", 0))
ConnectRefused == Raise(Exc("ConnectionError", "Connection refused", 0))

FetchFailures == {ReadTimeout, ConnectTimeout, ConnectRefused, Page(404, EmptyDoc), Page(503, EmptyDoc)}

\* what session.get may produce for one call of extract_property_data
Responses == FetchFailures \cup {Page(200, d) : d \in AllDocs}

\* what session.get may produce during a run over a list
RunResponses == {ReadTimeout, ConnectRefused, Page(404, EmptyDoc), Page(200, FullDoc),
                 Page(200, Doc({"address"}, Extractors, Days1.nodes, Days1.up)),
                 Page(200, Doc({"price"}, Extractors, Days1.nodes, Days1.up))}

----------------------------------------------------------------------------
(* extract_property_data *)

\* Python's None in result['error']
NONE == "<None>"

InitResult(url) ==
    [url |-> url, address |-> "N/A", lot_size |-> "N/A", price |-> "N/A",
     price_per_sqft |-> "N/A", days_on_market |-> "N/A", error |-> NONE]

\* response.raise_for_status() raises HTTPError for a 4xx or 5xx status
RaisesForStatus(status) == 400 <= status /\ status < 600
HTTPErrorOf(status) == Exc("HTTPError", ToString(status) \o " Error", status)

\* the exception a faulting call into the document raises
DocFault == Exc("RecursionError", "maximum recursion depth exceeded", 0)

\* what the selectors of an extractor yield on a document when nothing raises
ExtractorBody(ex, doc) ==
    CASE ex = "days_on_market"                      -> days_on_market_body(doc)
      [] ex = "address"        /\ ex \in doc.found  -> "123 Main St, Springfield"
      [] ex = "lot_size"       /\ ex \in doc.found  -> "0.25 acres"
      [] ex = "price"          /\ ex \in doc.found  -> "$350,000"
      [] ex = "price_per_sqft" /\ ex \in doc.found  -> "$175"
      [] OTHER                                      -> "N/A"

\* the extractors whose body is inside try: ... except Exception: (return 'N/A')
Guarded == {"lot_size", "price", "price_per_sqft", "days_on_market"}

Fields == Extractors

AllNA(r) == \A f \in Fields : r[f] = "N/A"

\* lines 82-91: the record is created with every field "N/A" and no error
Call ==
    /\ pc = "call"
    /\ result' = InitResult(urls[i])
    /\ ran' = {}
    /\ soup' = EmptyDoc
    /\ pc' = "validate"
    /\ UNCHANGED <<urls, append, answer, site, exists, file, i, mode, write_header,
                   results, failed_count, exit_status, fetches, written, slept,
                   prompted, file0, response>>

\* lines 93-96
Validate ==
    /\ pc = "validate"
    /\ IF validate_url(result.url)
       THEN /\ pc' = "fetch"
            /\ UNCHANGED result
       ELSE /\ result' = [result EXCEPT !.error = "Invalid Zillow URL"]
            /\ pc' = "returned"
    /\ UNCHANGED <<urls, append, answer, site, exists, file, i, mode, write_header,
                   results, failed_count, exit_status, soup, ran, fetches, written,
                   slept, prompted, file0, response>>

\* lines 98-104 with the handlers of lines 123-131: session.get, raise_for_status,
\* BeautifulSoup(response.text)
Fetch ==
    /\ pc = "fetch"
    /\ \E r \in site :
          /\ fetches' = [fetches EXCEPT ![i] = @ + 1]
          /\ response' = r
          /\ IF r.kind = "raise"
             THEN /\ result' = [result EXCEPT !.error = ErrorTag(r.exc)]
                  /\ pc' = "returned"
                  /\ UNCHANGED soup
             ELSE IF RaisesForStatus(r.status)
             THEN /\ result' = [result EXCEPT !.error = ErrorTag(HTTPErrorOf(r.status))]
                  /\ pc' = "returned"
                  /\ UNCHANGED soup
             ELSE /\ soup' = r.doc
                  /\ pc' = "address"
                  /\ UNCHANGED result
    /\ UNCHANGED <<urls, append, answer, site, exists, file, i, mode, write_header,
                   results, failed_count, exit_status, ran, written, slept, prompted,
                   file0>>

\* one of lines 107-119: result[ex] = self._extract_<ex>(soup); a fault inside a guarded
\* extractor yields 'N/A', a fault inside an unguarded one reaches the handler of line 132
Extract(ex, next) ==
    /\ pc = ex
    /\ ran' = ran \cup {ex}
    /\ IF ex \in soup.faults /\ ex \notin Guarded
       THEN /\ result' = [result EXCEPT !.error = ErrorTag(DocFault)]
            /\ pc' = "returned"
       ELSE /\ result' = [result EXCEPT ![ex] =
                             IF ex \in soup.faults THEN "N/A" ELSE ExtractorBody(ex, soup)]
            /\ pc' = next
    /\ UNCHANGED <<urls, append, answer, site, exists, file, i, mode, write_header,
                   results, failed_count, exit_status, soup, fetches, written, slept,
                   prompted, file0, response>>

ExtractAddress      == Extract("address", "lot_size")
ExtractLotSize      == Extract("lot_size", "price")
ExtractPrice        == Extract("price", "price_per_sqft")
ExtractPricePerSqft == Extract("price_per_sqft", "days_on_market")
ExtractDaysOnMarket == Extract("days_on_market", "returned")

----------------------------------------------------------------------------
(* scrape_urls *)

HeaderRow == [header |-> TRUE, rec |-> InitResult(<<>>)]
DataRow(r) == [header |-> FALSE, rec |-> r]

\* a row left in the output file by an earlier run
OldRow == DataRow([InitResult(UrlUpper) EXCEPT !.address = "9 Old Rd"])

\* a prompt that also appears at exactly the recommended maximum
NeedsConfirmAtMax(n) == n >= MAX_URLS_WARNING

\* line 290
NeedsConfirm(n) == n > MAX_URLS_WARNING

\* line 295: response.lower() != 'y'
Declined(ans) == Lower(ans) # <<"y">>

\* line 300
OpenMode(app, ex) == IF app /\ ex THEN "a" ELSE "w"

\* a loop that sleeps after every URL, the last one included
ShouldSleepAlways(k, n) == k <= n

\* line 337
ShouldSleep(k, n) == k < n

\* a loop that stops at the first failed URL
LoopContinuesUntilFailure(k, n, failed) == k < n /\ failed = 0

\* line 310: the for loop goes on while entries remain, whatever failed before
LoopContinues(k, n, failed) == k < n

\* lines 290-294: the count is compared with the threshold; above it, input() is called
Warn ==
    /\ pc = "start"
    /\ IF NeedsConfirm(Len(urls))
       THEN /\ prompted' = TRUE
            /\ pc' = "input"
       ELSE /\ pc' = "prepare"
            /\ UNCHANGED prompted
    /\ UNCHANGED <<urls, append, answer, site, exists, file, i, mode, write_header,
                   results, failed_count, exit_status, result, soup, ran, fetches,
                   written, slept, file0, response>>

\* lines 295-297: sys.exit(0)
Abort ==
    /\ pc = "input"
    /\ Declined(answer)
    /\ pc' = "exited"
    /\ exit_status' = 0
    /\ UNCHANGED <<urls, append, answer, site, exists, file, i, mode, write_header,
                   results, failed_count, result, soup, ran, fetches, written, slept,
                   prompted, file0, response>>

\* line 295, the answer is 'y' or 'Y'
Continue ==
    /\ pc = "input"
    /\ ~Declined(answer)
    /\ pc' = "prepare"
    /\ UNCHANGED <<urls, append, answer, site, exists, file, i, mode, write_header,
                   results, failed_count, exit_status, result, soup, ran, fetches,
                   written, slept, prompted, file0, response>>

\* lines 299-308
Prepare ==
    /\ pc = "prepare"
    /\ mode' = OpenMode(append, exists)
    /\ write_header' = (mode' = "w" \/ ~exists)
    /\ results' = <<>>
    /\ failed_count' = 0
    /\ pc' = "loop"
    /\ UNCHANGED <<urls, append, answer, site, exists, file, i, exit_status, result,
                   soup, ran, fetches, written, slept, prompted, file0, response>>

\* line 310 and, once the list is exhausted, the summary of lines 342-353
Loop ==
    /\ pc = "loop"
    /\ IF LoopContinues(i, Len(urls), failed_count)
       THEN /\ i' = i + 1
            /\ pc' = "call"
            /\ UNCHANGED exit_status
       ELSE /\ pc' = "done"
            /\ exit_status' = 0
            /\ UNCHANGED i
    /\ UNCHANGED <<urls, append, answer, site, exists, file, mode, write_header,
                   results, failed_count, result, soup, ran, fetches, written, slept,
                   prompted, file0, response>>

\* lines 314-322: the record returned by extract_property_data is kept and counted
Collect ==
    /\ pc = "returned"
    /\ results' = Append(results, result)
    /\ failed_count' = IF result.error # NONE THEN failed_count + 1 ELSE failed_count
    /\ pc' = "write"
    /\ UNCHANGED <<urls, append, answer, site, exists, file, i, mode, write_header,
                   exit_status, result, soup, ran, fetches, written, slept, prompted,
                   file0, response>>

\* lines 325-334: open(output_file, mode) truncates in mode 'w' and keeps the rows in
\* mode 'a'; the header is written if write_header, then the row; the file is closed
WriteRow ==
    /\ pc = "write"
    /\ file' = (IF mode = "w" THEN <<>> ELSE file)
                  \o (IF write_header THEN <<HeaderRow>> ELSE <<>>)
                  \o <<DataRow(result)>>
    /\ exists' = TRUE
    /\ write_header' = FALSE
    /\ written' = [written EXCEPT ![i] = @ + 1]
    /\ pc' = "pace"
    /\ UNCHANGED <<urls, append, answer, site, i, mode, results, failed_count,
                   exit_status, result, soup, ran, fetches, slept, prompted, file0, response>>

\* lines 336-340
Pace ==
    /\ pc = "pace"
    /\ slept' = IF ShouldSleep(i, Len(urls)) THEN [slept EXCEPT ![i] = @ + 1] ELSE slept
    /\ pc' = "loop"
    /\ UNCHANGED <<urls, append, answer, site, exists, file, i, mode, write_header,
                   results, failed_count, exit_status, result, soup, ran, fetches,
                   written, prompted, file0, response>>

----------------------------------------------------------------------------
(* Inputs *)

\* lists short enough for every response at every position to be explored
ShortLists == UNION {[1..n -> RunUrls] : n \in 1..MaxUrls}

\* lists at and above the warning threshold; every fifth entry is not a vendor URL
LongLists ==
    {[k \in 1..n |-> IF k % 5 = 0 THEN UrlPathOnly ELSE UrlListing] :
        n \in MAX_URLS_WARNING..(MAX_URLS_WARNING + MaxExtra)}

\* "y", "Y", "n", "yes", ""
Answers == {<<"y">>, <<"Y">>, <<"n">>, <<"y","e","s">>, <<>>}

Zeros(n) == [k \in 1..n |-> 0]

\* the locals of a function not yet called
Idle ==
    /\ mode = "w"
    /\ write_header = FALSE
    /\ results = <<>>
    /\ failed_count = 0
    /\ exit_status = -1
    /\ result = InitResult(<<>>)
    /\ soup = EmptyDoc
    /\ response = Page(0, EmptyDoc)
    /\ ran = {}
    /\ fetches = Zeros(Len(urls))
    /\ written = Zeros(Len(urls))
    /\ slept = Zeros(Len(urls))
    /\ prompted = FALSE

\* scrape_urls(urls, output_file, append) is called; main() passes a non-empty list
Init ==
    /\ urls \in ShortLists \cup LongLists
    /\ append \in BOOLEAN
    /\ answer \in (IF Len(urls) >= MAX_URLS_WARNING THEN Answers ELSE {<<>>})
    /\ site \in (IF Len(urls) <= MaxUrls THEN {RunResponses} ELSE {{r} : r \in RunResponses})
    /\ exists \in BOOLEAN
    /\ file = IF exists THEN <<HeaderRow, OldRow>> ELSE <<>>
    /\ file0 = file
    /\ pc = "start"
    /\ i = 0
    /\ Idle

Next ==
    \/ Warn \/ Abort \/ Continue \/ Prepare \/ Loop
    \/ Call \/ Validate \/ Fetch
    \/ ExtractAddress \/ ExtractLotSize \/ ExtractPrice \/ ExtractPricePerSqft
    \/ ExtractDaysOnMarket
    \/ Collect \/ WriteRow \/ Pace

Spec == Init /\ [][Next]_vars

\* extract_property_data(url) is called on one URL
InitRecord ==
    /\ urls \in {<<u>> : u \in UrlPool}
    /\ append = FALSE
    /\ answer = <<>>
    /\ site = Responses
    /\ exists = FALSE
    /\ file = <<>>
    /\ file0 = file
    /\ pc = "call"
    /\ i = 1
    /\ Idle

NextRecord ==
    \/ Call \/ Validate \/ Fetch
    \/ ExtractAddress \/ ExtractLotSize \/ ExtractPrice \/ ExtractPricePerSqft
    \/ ExtractDaysOnMarket

SpecRecord == InitRecord /\ [][NextRecord]_vars

----------------------------------------------------------------------------
(* Properties of the output file (scrape_urls) *)

DataRows(f) == SelectSeq(f, LAMBDA r : ~r.header)
HeaderCount(f) == Cardinality({k \in 1..Len(f) : f[k].header})

\* the data rows of the earlier file that the run is to keep: all of them when
\* appending, none when overwriting
KeptRows == IF append THEN DataRows(file0) ELSE <<>>

\* C1: once the write step of the i-th URL has completed, the output file holds the
\* data rows of URLs 1..i in input order (after the rows an appending run found), so
\* no row written for an earlier URL is ever removed by a later iteration.
C1_RowsKept ==
    (i >= 1 /\ written[i] = 1) =>
        DataRows(file) = KeptRows \o [k \in 1..i |-> DataRow(results[k])]

\* C2: after a completed run the header row appears exactly once in the output file,
\* and in overwrite mode it is the first row.
C2_HeaderOnce ==
    pc = "done" =>
        /\ HeaderCount(file) = 1
        /\ (~append => file[1].header)

----------------------------------------------------------------------------
(* Properties of extract_property_data *)

\* extract_property_data has returned its record
Returned == pc = "returned"

\* the fetch of the current URL was made and failed: session.get raised, or
\* raise_for_status raised on a 4xx/5xx response
FetchFailed ==
    /\ fetches[i] = 1
    /\ response.kind = "raise" \/ RaisesForStatus(response.status)

\* the fetch of the current URL was made and gave a page
FetchedPage ==
    /\ fetches[i] = 1
    /\ response.kind = "response" /\ ~RaisesForStatus(response.status)

Rejected(r) == r.error = "Invalid Zillow URL" /\ AllNA(r)

\* C3: for "https://www.notzillow.com/x" the record has error "Invalid Zillow URL",
\* every data field is "N/A", and the HTTP fetcher is never called.
C3_NotZillowRejected ==
    (i >= 1 /\ urls[i] = UrlNotZillow /\ pc \notin {"call", "validate"}) =>
        /\ fetches[i] = 0
        /\ Returned => Rejected(result)

\* urlparse(url).hostname: the network location without the user information before
\* the last '@' and without the port after ':', in lower case; none if urlparse raises
Hostname(url) ==
    IF UrlparseRaises(url) THEN <<>>
    ELSE LET n    == Netloc(url)
             ats  == {k \in 1..Len(n) : n[k] = "@"}
             last == IF ats = {} THEN 0 ELSE CHOOSE k \in ats : \A j \in ats : j <= k
             hp   == SubSeq(n, last + 1, Len(n))
             c    == FindAny(hp, {":"})
         IN  Lower(IF c = 0 THEN hp ELSE SubSeq(hp, 1, c - 1))

\* C4: for every URL whose host does not contain "zillow.com" (case-insensitive),
\* validate_url is false, neither the fetcher nor an extractor is ever called, and the
\* record has error "Invalid Zillow URL" with every data field "N/A".
C4_OtherHostsRejected ==
    (i >= 1 /\ pc # "call" /\ ~Contains(Hostname(urls[i]), VENDOR)) =>
        /\ ~validate_url(urls[i])
        /\ fetches[i] = 0
        /\ ran = {}
        /\ Returned => Rejected(result)

\* the same with the network location (user information and port included) in
\* place of the host: this is what validate_url tests
NetlocRejected ==
    (i >= 1 /\ pc \notin {"call", "validate"} /\ ~Contains(Lower(Netloc(urls[i])), VENDOR)) =>
        /\ fetches[i] = 0
        /\ ran = {}
        /\ Returned => Rejected(result)

\* the tag the failure class of a failed fetch calls for
FailureTag(r) ==
    IF r.kind = "raise" /\ "Timeout" \in Ancestors(r.exc.cls) THEN "Request timeout"
    ELSE IF r.kind = "response" THEN "HTTP " \o ToString(r.status)
    ELSE "Request failed: " \o r.exc.msg

\* C5: when the fetch for a valid URL fails, the error is the one tag of its failure
\* class (timeout, HTTP error status, other transport failure), no extractor is run and
\* all five data fields stay "N/A".
C5_FetchFailureTag ==
    (Returned /\ FetchFailed) =>
        /\ result.error = FailureTag(response)
        /\ ran = {}
        /\ AllNA(result)

\* C5 witness: a connect timeout (a Timeout that is also a ConnectionError) was recorded
C5_Witness ==
    /\ Returned /\ FetchFailed
    /\ response = ConnectTimeout
    /\ result.error = "Request timeout"

\* C6: a fault inside any of the five extractors yields "N/A" for that field, leaves
\* the record's error null, and does not keep the other extractors from running.
C6_FaultsIsolated ==
    (Returned /\ FetchedPage) =>
        /\ result.error = NONE
        /\ ran = Extractors
        /\ \A ex \in soup.faults : result[ex] = "N/A"

\* the guarded extractors do isolate their faults: once the address is extracted,
\* the record's error stays null and every later extractor runs
GuardedFaultsIsolated ==
    (Returned /\ FetchedPage /\ "address" \notin soup.faults) =>
        /\ result.error = NONE
        /\ ran = Extractors
        /\ \A ex \in soup.faults : result[ex] = "N/A"

----------------------------------------------------------------------------
(* Properties of the scrape_urls loop *)

RECURSIVE Sum(_)
Sum(f) == IF f = <<>> THEN 0 ELSE Head(f) + Sum(Tail(f))

\* nothing of the run has touched the network or the output file
Untouched ==
    /\ Sum(fetches) = 0
    /\ file = file0
    /\ exists = (file0 # <<>>)

\* C7: with more than 20 URLs the run asks for confirmation before any URL is
\* processed, and an answer other than 'y' (case-insensitive) ends the process with
\* status 0, no network call made and the output file neither created nor modified;
\* with 20 URLs or fewer there is no prompt.
C7_Confirmation ==
    /\ Len(urls) > MAX_URLS_WARNING =>
          /\ (pc # "start" => prompted)
          /\ (pc \in {"start", "input"} => i = 0 /\ Untouched)
          /\ (Lower(answer) # <<"y">> /\ pc \notin {"start", "input"}) =>
                 (pc = "exited" /\ exit_status = 0 /\ i = 0 /\ Untouched)
    /\ Len(urls) <= MAX_URLS_WARNING => (~prompted /\ pc # "exited")

\* C7 witness: 21 URLs, the answer "yes" is not 'y', and the process has exited
C7_Witness ==
    /\ Len(urls) = MAX_URLS_WARNING + 1
    /\ answer = <<"y","e","s">>
    /\ file0 # <<>>
    /\ pc = "exited"

\* C8: URL k+1 is started (and so fetched) only after the record of URL k was written
\* and exactly one delay followed that write; no delay follows the last URL, so a
\* completed run over n URLs has slept n-1 times.
C8_SequentialPaced ==
    /\ \A k \in 1..Len(urls) :
          /\ slept[k] <= 1
          /\ slept[k] = 1 => written[k] = 1
          /\ (k > i \/ (k = i /\ pc = "call")) => (fetches[k] = 0 /\ written[k] = 0)
          /\ (k < i) => (written[k] = 1 /\ slept[k] = 1)
          /\ fetches[k] > 0 => \A j \in 1..(k - 1) : written[j] = 1 /\ slept[j] = 1
    /\ slept[Len(urls)] = 0
    /\ pc = "done" => Sum(slept) = Len(urls) - 1

\* C8 witness: a run over 20 URLs is complete, with 19 delays
C8_Witness ==
    /\ pc = "done"
    /\ Len(urls) = MAX_URLS_WARNING
    /\ Sum(slept) = MAX_URLS_WARNING - 1
    /\ Sum(written) = MAX_URLS_WARNING

\* C9: every entry is attempted exactly once: the fetcher is called at most once per
\* entry, exactly once for an entry the validator accepts, whatever the fetch gives;
\* one record is produced per entry, and a failed URL does not stop the loop.
C9_NoRetries ==
    /\ Len(results) <= i
    /\ \A k \in 1..Len(urls) : fetches[k] <= 1 /\ written[k] <= 1
    /\ \A k \in 1..Len(results) :
          /\ results[k].url = urls[k]
          /\ fetches[k] = IF validate_url(urls[k]) THEN 1 ELSE 0
    /\ pc = "done" => (i = Len(urls) /\ Len(results) = Len(urls))

\* C9 witness: the first URL timed out, the second was then scraped, the run is complete
C9_Witness ==
    /\ pc = "done"
    /\ Len(urls) = 2
    /\ results[1].error = "Request timeout"
    /\ results[2].error = NONE
    /\ fetches = <<1, 1>>

----------------------------------------------------------------------------
(* Properties of _extract_days_on_market *)

\* the text of the parent of node n, and its words
ParentText(doc, n) == GetText(doc, doc.nodes[n].parent)
HasNumber(doc, n) == \E k \in 1..Len(Split(ParentText(doc, n))) : IsNumber(Split(ParentText(doc, n))[k])
FirstNumber(doc, n) ==
    LET words == Split(ParentText(doc, n))
    IN  words[CHOOSE k \in 1..Len(words) :
                 IsNumber(words[k]) /\ \A j \in 1..(k - 1) : ~IsNumber(words[j])]

\* the (keyword, node) pairs the loops visit whose parent's text has a number
Candidates(doc) ==
    {c \in (1..Len(KEYWORDS)) \X (1..Len(doc.nodes)) :
        NodeMatches(doc.nodes[c[2]], KEYWORDS[c[1]]) /\ HasNumber(doc, c[2])}

\* keyword order, then document order
Before(c, d) == c[1] < d[1] \/ (c[1] = d[1] /\ c[2] <= d[2])
FirstCandidate(doc) == CHOOSE c \in Candidates(doc) : \A d \in Candidates(doc) : Before(c, d)

\* the parent's text of node n contains "zillow" or "market"
LabelInText(doc, n) ==
    Contains(Lower(ParentText(doc, n)), ZILLOW) \/ Contains(Lower(ParentText(doc, n)), MARKET)

\* _extract_days_on_market has run on the page without a fault
DaysExtracted ==
    /\ Returned
    /\ "days_on_market" \in ran
    /\ "days_on_market" \notin soup.faults

\* C10 as stated: for the first matching text node whose parent's text has a number,
\* the extractor returns "<first such number> days" whatever token follows it.
C10_DayTestNeverDecides ==
    (DaysExtracted /\ Candidates(soup) # {}) =>
        result.days_on_market = Str(FirstNumber(soup, FirstCandidate(soup)[2])) \o " days"

\* C10 amended: that holds when the parent's text of that node contains "zillow" or
\* "market"; and it does contain one of them whenever the matching node is part of
\* its parent's text, that is, unless get_text() leaves the node out (a comment).
C10_DayTestDecidesOnlyWithoutLabel ==
    /\ (DaysExtracted /\ Candidates(soup) # {} /\ LabelInText(soup, FirstCandidate(soup)[2])) =>
          result.days_on_market = Str(FirstNumber(soup, FirstCandidate(soup)[2])) \o " days"
    /\ DaysExtracted =>
          \A j \in 1..Len(KEYWORDS), n \in 1..Len(soup.nodes) :
             (NodeMatches(soup.nodes[n], KEYWORDS[j]) /\ ~soup.nodes[n].comment)
                 => LabelInText(soup, n)

\* C10 witness: "Days on market: 7 weeks" gave "7 days" although "weeks" follows the 7
C10_Witness ==
    /\ DaysExtracted
    /\ soup.nodes = Days2.nodes
    /\ ~NextIsDay(Split(ParentText(soup, 1)), 4)
    /\ result.days_on_market = "7 days"

====
